---- MODULE Spec2Model ----
(***************************************************************************)
(* A model of apca's src/websocket.rs: the websocket Connector             *)
(* (connect_internal / connect), the MessageResult adapter and the         *)
(* test-only mock_stream harness.                                          *)
(*                                                                         *)
(* The specifications of the module:                                       *)
(*   Spec          concurrent connect calls polled by executor threads     *)
(*   ConvSpec      MessageResult::from applied to a sequence of results    *)
(*   MockSpec      one mock_stream call with its background server task    *)
(*   MockLiveSpec  MockSpec with weak fairness, for eventual return        *)
(***************************************************************************)
EXTENDS Integers, Sequences, FiniteSets, TLC

\* ------------------------------------------------------------------ bounds
NumCalls == 2

Calls == 1..NumCalls

\* The executor's worker threads.
Threads == {1, 2}

\* Inputs and outcomes of the environment, drawn from small sets.
Endpoints == {"ws://a/stream", "wss://b/stream"}
TransportErrors == {"ConnectionRefused", "HttpUpgradeRejected"}
Responses == {"101 plain", "101 subprotocol"}

None == [tag |-> "None"]

VARIABLES
  pc,          \* pc[c]: position of connect call c
  url,         \* url[c]: the endpoint call c was given
  span,        \* span[c]: id of the "stream" span call c created (0: none yet)
  nextSpan,    \* the tracing subscriber's span id allocator
  running,     \* running[t]: the call executor thread t is polling (0: none)
  spanStack,   \* spanStack[t]: thread t's stack of entered spans
  hs,          \* hs[c]: outcome of call c's connect_async
  attempts,    \* attempts[c]: number of connect_async invocations of call c
  resumes,     \* resumes[c]: number of times call c's handshake resolved
  streams,     \* set of transport streams the network layer has produced
  log,         \* log[c]: the tracing events call c has emitted, in order
  result,      \* result[c]: what connect returned to call c's caller
  natives,     \* ConvSpec: the native Results handed to MessageResult::from
  converted,   \* ConvSpec: the MessageResults produced from them, in order
  m            \* MockSpec: the state of one mock_stream call

connVars == <<pc, url, span, nextSpan, running, spanStack, hs, attempts,
              resumes, streams, log, result>>
convVars == <<natives, converted>>
otherVars == <<natives, converted, m>>
vars == <<pc, url, span, nextSpan, running, spanStack, hs, attempts,
          resumes, streams, log, result, natives, converted, m>>

\* ------------------------------------------------- native Result and errors
Ok(v) == [tag |-> "Ok", val |-> v]
Err(e) == [tag |-> "Err", val |-> e]

\* `?` at line 55 converts the transport error with From into crate::Error.
ErrorFrom(e) == [kind |-> "WebSocket", source |-> e]

\* ------------------------------------------------------------ tracing spans
\* The span an event is attributed to: the innermost entered span of the
\* emitting thread (0 when the thread has entered none).
CurrentSpan(stack) == IF Len(stack) = 0 THEN 0 ELSE stack[Len(stack)]

\* One span created once and shared by every call, instead of one per call.
EnterSpanShared(stack, sp) == Append(stack, 1)

\* Instrumented::poll enters the span before polling the inner future.
EnterSpan(stack, sp) == Append(stack, sp)

\* Instrumented::poll exits the span when the inner poll returns, Pending or
\* Ready.
ExitSpan(stack) == SubSeq(stack, 1, Len(stack) - 1)

Event(c, t, msg, level) ==
  [call |-> c, scope |-> CurrentSpan(spanStack[t]), msg |-> msg,
   level |-> level]

ThreadOf(c) == CHOOSE t \in Threads : running[t] = c
IsRunning(c) == \E t \in Threads : running[t] = c

\* --------------------------------------------------------------- connector
\* Wrapper::builder().build(stream)
WrapperBuild(stream) == [inner |-> stream, config |-> "default"]

\* A pooled connect: a stream already handed out for the same endpoint is
\* reused.
ConnectMapPooled(c, r) ==
  IF r.tag = "Ok"
  THEN LET prior == {d \in Calls \ {c} :
                       pc[d] = "done" /\ result[d].tag = "Ok" /\ url[d] = url[c]}
       IN IF prior = {} THEN Ok(WrapperBuild(r.val))
          ELSE result[CHOOSE d \in prior : TRUE]
  ELSE r

\* A connect that hands out a wrapper even though the handshake failed.
ConnectMapDegraded(c, r) == Ok(WrapperBuild(IF r.tag = "Ok" THEN r.val ELSE 0))

\* connect: connect_internal(url).await.map(|stream| Wrapper::builder().build(stream))
ConnectMap(c, r) == IF r.tag = "Ok" THEN Ok(WrapperBuild(r.val)) ELSE r

\* A connector that retries a failed handshake once.
AfterHandshakeRetry(c, h) ==
  IF h.tag = "Ok" THEN "succeeded"
  ELSE IF attempts[c] < 2 THEN "logged" ELSE "failed"

\* A connector that also logs on the failure path.
AfterHandshakeLogFailure(c, h) == "succeeded"

\* `connect_async(url).await?`: continue on Ok, return early on Err.
AfterHandshake(c, h) == IF h.tag = "Ok" THEN "succeeded" ELSE "failed"

\* connect_internal's value: Ok(stream), or the converted error from `?`.
InternalResult(h) == IF h.tag = "Ok" THEN Ok(h.stream) ELSE Err(ErrorFrom(h.err))

ConnInit ==
  /\ pc = [c \in Calls |-> "idle"]
  /\ url = [c \in Calls |-> "none"]
  /\ span = [c \in Calls |-> 0]
  /\ nextSpan = 1
  /\ running = [t \in Threads |-> 0]
  /\ spanStack = [t \in Threads |-> <<>>]
  /\ hs = [c \in Calls |-> None]
  /\ attempts = [c \in Calls |-> 0]
  /\ resumes = [c \in Calls |-> 0]
  /\ streams = {}
  /\ log = [c \in Calls |-> <<>>]
  /\ result = [c \in Calls |-> None]

\* connect(url) is called: the future exists but has not been polled.
Call(c, u) ==
  /\ pc[c] = "idle"
  /\ pc' = [pc EXCEPT ![c] = "called"]
  /\ url' = [url EXCEPT ![c] = u]
  /\ UNCHANGED <<span, nextSpan, running, spanStack, hs, attempts, resumes,
                 streams, log, result>>
  /\ UNCHANGED otherVars

\* A thread starts polling the call's future. The first poll creates the span
\* (line 47); every poll enters it (line 61).
PollStart(c, t) ==
  /\ pc[c] \in {"called", "ready"}
  /\ ~IsRunning(c)
  /\ running[t] = 0
  /\ LET first == span[c] = 0
         sp == IF first THEN nextSpan ELSE span[c]
     IN /\ span' = [span EXCEPT ![c] = sp]
        /\ nextSpan' = IF first THEN nextSpan + 1 ELSE nextSpan
        /\ spanStack' = [spanStack EXCEPT ![t] = EnterSpan(@, sp)]
  /\ running' = [running EXCEPT ![t] = c]
  /\ UNCHANGED <<pc, url, hs, attempts, resumes, streams, log, result>>
  /\ UNCHANGED otherVars

\* debug!(message = "connecting", url = display(url))
LogConnecting(c) ==
  /\ pc[c] = "called"
  /\ IsRunning(c)
  /\ log' = [log EXCEPT ![c] = Append(@, Event(c, ThreadOf(c), "connecting", "DEBUG"))]
  /\ pc' = [pc EXCEPT ![c] = "logged"]
  /\ UNCHANGED <<url, span, nextSpan, running, spanStack, hs, attempts,
                 resumes, streams, result>>
  /\ UNCHANGED otherVars

\* connect_async(url) is invoked.
StartHandshake(c) ==
  /\ pc[c] = "logged"
  /\ IsRunning(c)
  /\ attempts' = [attempts EXCEPT ![c] = @ + 1]
  /\ hs' = [hs EXCEPT ![c] = None]
  /\ pc' = [pc EXCEPT ![c] = "pending"]
  /\ UNCHANGED <<url, span, nextSpan, running, spanStack, resumes, streams,
                 log, result>>
  /\ UNCHANGED otherVars

\* The handshake is not ready: the poll returns Pending and the thread is
\* released.
Suspend(c) ==
  /\ pc[c] = "pending"
  /\ IsRunning(c)
  /\ LET t == ThreadOf(c)
     IN /\ spanStack' = [spanStack EXCEPT ![t] = ExitSpan(@)]
        /\ running' = [running EXCEPT ![t] = 0]
  /\ pc' = [pc EXCEPT ![c] = "awaiting"]
  /\ UNCHANGED <<url, span, nextSpan, hs, attempts, resumes, streams, log,
                 result>>
  /\ UNCHANGED otherVars

\* The network resolves the handshake: a new stream and the peer's response.
HandshakeOk(c, r) ==
  /\ pc[c] = "awaiting"
  /\ LET s == Cardinality(streams) + 1
     IN /\ streams' = streams \cup {[id |-> s, endpoint |-> url[c], openedBy |-> c]}
        /\ hs' = [hs EXCEPT ![c] = [tag |-> "Ok", stream |-> s, response |-> r]]
  /\ resumes' = [resumes EXCEPT ![c] = @ + 1]
  /\ pc' = [pc EXCEPT ![c] = "ready"]
  /\ UNCHANGED <<url, span, nextSpan, running, spanStack, attempts, log, result>>
  /\ UNCHANGED otherVars

\* The network resolves the handshake with a transport error.
HandshakeErr(c, e) ==
  /\ pc[c] = "awaiting"
  /\ hs' = [hs EXCEPT ![c] = [tag |-> "Err", err |-> e]]
  /\ resumes' = [resumes EXCEPT ![c] = @ + 1]
  /\ pc' = [pc EXCEPT ![c] = "ready"]
  /\ UNCHANGED <<url, span, nextSpan, running, spanStack, attempts, streams,
                 log, result>>
  /\ UNCHANGED otherVars

\* The re-polled future takes the handshake's value: `?` at line 55.
Resume(c) ==
  /\ pc[c] = "ready"
  /\ IsRunning(c)
  /\ pc' = [pc EXCEPT ![c] = AfterHandshake(c, hs[c])]
  /\ UNCHANGED <<url, span, nextSpan, running, spanStack, hs, attempts,
                 resumes, streams, log, result>>
  /\ UNCHANGED otherVars

\* debug!("connection successful")
LogSuccess(c) ==
  /\ pc[c] = "succeeded"
  /\ IsRunning(c)
  /\ log' = [log EXCEPT ![c] = Append(@, Event(c, ThreadOf(c), "connection successful", "DEBUG"))]
  /\ pc' = [pc EXCEPT ![c] = "success_logged"]
  /\ UNCHANGED <<url, span, nextSpan, running, spanStack, hs, attempts,
                 resumes, streams, result>>
  /\ UNCHANGED otherVars

\* trace!(response = debug(&response))
LogResponse(c) ==
  /\ pc[c] = "success_logged"
  /\ IsRunning(c)
  /\ log' = [log EXCEPT ![c] = Append(@, Event(c, ThreadOf(c), "response", "TRACE"))]
  /\ pc' = [pc EXCEPT ![c] = "response_logged"]
  /\ UNCHANGED <<url, span, nextSpan, running, spanStack, hs, attempts,
                 resumes, streams, result>>
  /\ UNCHANGED otherVars

\* The inner future is Ready: the span is exited, connect maps the value and
\* returns it to the caller.
Return(c) ==
  /\ pc[c] \in {"response_logged", "failed"}
  /\ IsRunning(c)
  /\ LET t == ThreadOf(c)
     IN /\ spanStack' = [spanStack EXCEPT ![t] = ExitSpan(@)]
        /\ running' = [running EXCEPT ![t] = 0]
  /\ result' = [result EXCEPT ![c] = ConnectMap(c, InternalResult(hs[c]))]
  /\ pc' = [pc EXCEPT ![c] = "done"]
  /\ UNCHANGED <<url, span, nextSpan, hs, attempts, resumes, streams, log>>
  /\ UNCHANGED otherVars

ConvIdle == natives = <<>> /\ converted = <<>>
MockIdle == m = None

Init == ConnInit /\ ConvIdle /\ MockIdle

Next ==
  \/ \E c \in Calls, u \in Endpoints : Call(c, u)
  \/ \E c \in Calls, t \in Threads : PollStart(c, t)
  \/ \E c \in Calls : LogConnecting(c)
  \/ \E c \in Calls : StartHandshake(c)
  \/ \E c \in Calls : Suspend(c)
  \/ \E c \in Calls, r \in Responses : HandshakeOk(c, r)
  \/ \E c \in Calls, e \in TransportErrors : HandshakeErr(c, e)
  \/ \E c \in Calls : Resume(c)
  \/ \E c \in Calls : LogSuccess(c)
  \/ \E c \in Calls : LogResponse(c)
  \/ \E c \in Calls : Return(c)

Spec == Init /\ [][Next]_vars

\* ------------------------------------------------------ connector properties
Done(c) == pc[c] = "done"
OkCalls == {c \in Calls : Done(c) /\ result[c].tag = "Ok"}
MsgsOf(c) == [i \in 1..Len(log[c]) |-> log[c][i].msg]
LevelsOf(c) == [i \in 1..Len(log[c]) |-> log[c][i].level]
IsPrefix(s, t) == Len(s) <= Len(t) /\ \A i \in 1..Len(s) : s[i] = t[i]
LogOrder == <<"connecting", "connection successful", "response">>
LogLevels == <<"DEBUG", "DEBUG", "TRACE">>

\* C1: a returned connect call yields the converted transport error and no
\* wrapper when its handshake failed, a wrapper around the handshake's stream
\* when it succeeded, and nothing else; before it returns it has yielded
\* nothing; a failed call has opened no stream.
C1_ErrorOrWrapper ==
  \A c \in Calls :
    /\ ~Done(c) => result[c] = None
    /\ Done(c) =>
         /\ result[c].tag \in {"Ok", "Err"}
         /\ result[c].tag = "Ok" <=> hs[c].tag = "Ok"
         /\ hs[c].tag = "Err" =>
              /\ result[c].val = [kind |-> "WebSocket", source |-> hs[c].err]
              /\ ~\E s \in streams : s.openedBy = c
         /\ hs[c].tag = "Ok" =>
              /\ result[c].val.inner = hs[c].stream
              /\ \E s \in streams : s.id = hs[c].stream /\ s.openedBy = c

\* One call has returned an error and another a wrapper.
C1_Witness ==
  \E c, d \in Calls :
    /\ Done(c) /\ result[c].tag = "Err"
    /\ Done(d) /\ result[d].tag = "Ok"

\* C2: every call starts its handshake at most once, the handshake resolves at
\* most once per start, and a returned call has started and resumed exactly
\* once, whether it succeeded or failed.
C2_OneAttempt ==
  \A c \in Calls :
    /\ attempts[c] <= 1
    /\ resumes[c] <= attempts[c]
    /\ pc[c] \in {"pending", "awaiting"} => attempts[c] = 1 /\ resumes[c] = 0
    /\ pc[c] \in {"ready", "succeeded", "success_logged", "response_logged",
                  "failed", "done"} => attempts[c] = 1 /\ resumes[c] = 1

\* A call has returned after its single handshake attempt failed.
C2_Witness ==
  \E c \in Calls : Done(c) /\ hs[c].tag = "Err" /\ attempts[c] = 1 /\ resumes[c] = 1

\* C4: the streams produced are exactly the ones of the handshakes that
\* succeeded, one each; every successful call returns the stream its own
\* handshake opened, and no two successful calls return the same stream, also
\* when they name the same endpoint. Once every call has returned, there are
\* as many streams as successful calls.
C4_OneStreamPerSuccess ==
  /\ Cardinality(streams) = Cardinality({c \in Calls : hs[c].tag = "Ok"})
  /\ \A c \in OkCalls :
       \E s \in streams : s.id = result[c].val.inner /\ s.openedBy = c
  /\ \A c, d \in OkCalls : c # d => result[c].val.inner # result[d].val.inner
  /\ (\A c \in Calls : Done(c)) => Cardinality(streams) = Cardinality(OkCalls)

\* Two calls against the same endpoint have both returned a wrapper.
C4_Witness ==
  \E c, d \in OkCalls : c # d /\ url[c] = url[d]

\* C8: every event a call has emitted carries that call's own span, that
\* span is a real one, and no two calls share a span.
C8_ScopedEvents ==
  /\ \A c \in Calls : \A i \in 1..Len(log[c]) :
       log[c][i].scope # 0 /\ log[c][i].scope = span[c]
  /\ \A c, d \in Calls : c # d /\ span[c] # 0 => span[c] # span[d]

\* Two calls interleaved at the handshake suspension: one call has logged
\* after its handshake while the other, which logged connecting in between, is
\* still suspended at its own.
C8_Witness ==
  \E c, d \in Calls :
    /\ c # d
    /\ Len(log[c]) >= 2
    /\ span[d] > span[c]
    /\ Len(log[d]) = 1 /\ pc[d] = "awaiting"

\* C10: a call's events are a prefix of connecting (debug), connection
\* successful (debug), response (trace); connecting precedes the handshake;
\* the success and response events exist only after a successful handshake; a
\* call whose handshake failed has logged nothing but connecting; a successful
\* call returns the wrapper of the handshake's stream whatever the response.
C10_LogOrder ==
  \A c \in Calls :
    /\ IsPrefix(MsgsOf(c), LogOrder)
    /\ IsPrefix(LevelsOf(c), LogLevels)
    /\ attempts[c] > 0 => Len(MsgsOf(c)) >= 1
    /\ Len(MsgsOf(c)) >= 2 => hs[c].tag = "Ok"
    /\ hs[c].tag # "Ok" => Len(MsgsOf(c)) <= 1
    /\ Done(c) /\ hs[c].tag = "Ok" =>
         /\ MsgsOf(c) = LogOrder
         /\ result[c] = [tag |-> "Ok",
                         val |-> [inner |-> hs[c].stream, config |-> "default"]]
    /\ Done(c) /\ hs[c].tag = "Err" => MsgsOf(c) = <<"connecting">>

\* One call has returned after logging all three events and another after a
\* failed handshake.
C10_Witness ==
  \E c, d \in Calls :
    /\ Done(c) /\ hs[c].tag = "Ok" /\ Len(MsgsOf(c)) = 3
    /\ Done(d) /\ hs[d].tag = "Err"

\* ------------------------------------------------------------ MessageResult
MaxResults == 3

\* Success and failure payloads of the converted results.
Payloads == {"trade update", "account update"}
Failures == {"json error", "connection closed"}
NativeResults == {Ok(t) : t \in Payloads} \cup {Err(e) : e \in Failures}

\* The two variants of MessageResult<T, E>.
MessageOk(t) == [variant |-> "MessageResult::Ok", payload |-> t]
MessageErr(e) == [variant |-> "MessageResult::Err", payload |-> e]

\* A conversion with its match arms crossed.
MessageResultFromCrossed(r) ==
  IF r.tag = "Ok" THEN MessageErr(r.val) ELSE MessageOk(r.val)

\* impl From<Result<T, E>> for MessageResult<T, E>
MessageResultFrom(r) ==
  IF r.tag = "Ok" THEN MessageOk(r.val) ELSE MessageErr(r.val)

SeqsUpTo(S, n) == UNION {[1..k -> S] : k \in 1..n}

ConvInit ==
  /\ ConnInit
  /\ m = None
  /\ natives \in SeqsUpTo(NativeResults, MaxResults)
  /\ converted = <<>>

\* The next native result is converted.
Convert ==
  /\ Len(converted) < Len(natives)
  /\ converted' = Append(converted, MessageResultFrom(natives[Len(converted) + 1]))
  /\ UNCHANGED <<natives, m>>
  /\ UNCHANGED connVars

ConvNext == Convert
ConvSpec == ConvInit /\ [][ConvNext]_vars

\* C3: every converted result has the variant of the native result it came
\* from and the same payload: Ok(t) gives MessageResult::Ok(t), Err(e) gives
\* MessageResult::Err(e), and nothing else is produced.
C3_VariantPreserved ==
  \A i \in 1..Len(converted) :
    /\ converted[i].variant \in {"MessageResult::Ok", "MessageResult::Err"}
    /\ natives[i].tag = "Ok" =>
         converted[i] = [variant |-> "MessageResult::Ok", payload |-> natives[i].val]
    /\ natives[i].tag = "Err" =>
         converted[i] = [variant |-> "MessageResult::Err", payload |-> natives[i].val]

\* A success and a failure have both been converted.
C3_Witness ==
  \E i, j \in 1..Len(converted) : natives[i].tag = "Ok" /\ natives[j].tag = "Err"

\* -------------------------------------------------------------- mock_stream
\* The fake key-id and secret (lines 91 and 93).
KEY_ID == "USER12345678"
SECRET == "justletmein"

\* What the server script f does with the upgraded stream it is given:
\*   idle    nothing further, returns Ok(())
\*   break   sends what makes the client's connect-and-subscribe raise
\*   serve   sends one text frame and leaves the connection open
\*   panic   panics
Scripts == {"idle", "break", "serve", "panic"}

\* The address the operating system may give a listener bound to 127.0.0.1:0.
EphemeralPorts == {49152, 50311}
LocalAddrs == {[ip |-> "127.0.0.1", port |-> p] : p \in EphemeralPorts}

\* addr.to_string(): "<ip>:<port>"
AddrToString(addr) == <<addr.ip, ":", addr.port>>

\* format!("ws://{}", ...)
WsUrlString(str) == <<"ws", "://">> \o str

\* Url::parse of "<scheme>://<host>:<port>": the port of the scheme's default
\* is dropped (0), an empty path of a ws url becomes "/".
UrlParse(str) ==
  [scheme |-> str[1], host |-> str[3],
   port |-> IF str[1] = "ws" /\ str[5] = 80 THEN 0 ELSE str[5],
   path |-> "/"]

\* A configuration built with the two credentials in each other's place.
ApiInfoSwapped(addr) ==
  [base_url |-> UrlParse(WsUrlString(AddrToString(addr))),
   key_id |-> SECRET, secret |-> KEY_ID]

\* A configuration pointing at a fixed port instead of the mock server's.
ApiInfoFixedPort(addr) ==
  [base_url |-> UrlParse(WsUrlString(AddrToString([addr EXCEPT !.port = 49152]))),
   key_id |-> KEY_ID, secret |-> SECRET]

\* The ApiInfo of lines 106-110.
ApiInfo(addr) ==
  [base_url |-> UrlParse(WsUrlString(AddrToString(addr))),
   key_id |-> KEY_ID, secret |-> SECRET]

\* A harness that replaces the client's error by one of its own.
MockStreamResultReplaced(r) ==
  IF r.tag = "Err" THEN Err(ErrorFrom("mock stream failed")) ELSE r

\* A harness that turns every outcome of the client into a success.
MockStreamResultSwallowed(r) ==
  IF r.tag = "Err" THEN Ok([stream |-> None, subscription |-> None]) ELSE r

\* Line 112: the value of S::connect(&api_info).await is mock_stream's value.
MockStreamResult(r) == r

\* What S::connect yields once the handshake is through: the pair of handles,
\* or the error the script induced.
SubscribeResult(conn, info) ==
  IF conn = "broken" THEN Err(ErrorFrom("ProtocolError"))
  ELSE Ok([stream |-> [peer |-> info.base_url],
           subscription |-> [endpoint |-> info.base_url, key_id |-> info.key_id]])

MockStart(f) ==
  [pc |-> "start", f |-> f, addr |-> None, task |-> "not_spawned",
   scriptPanicked |-> FALSE, conn |-> "none", frames |-> <<>>,
   api_info |-> None,
   client |-> "not_started", clientResult |-> None, ret |-> None]

MockInit ==
  /\ ConnInit
  /\ ConvIdle
  /\ m \in {MockStart(f) : f \in Scripts}

MockUnchanged == UNCHANGED <<natives, converted>> /\ UNCHANGED connVars

\* mock_server: TcpListener::bind("127.0.0.1:0") succeeds.
BindOk(a) ==
  /\ m.pc = "start"
  /\ m' = [m EXCEPT !.pc = "bound", !.addr = a]
  /\ MockUnchanged

\* mock_server: the bind fails and its unwrap panics in mock_stream's task.
BindFail ==
  /\ m.pc = "start"
  /\ m' = [m EXCEPT !.pc = "panicked"]
  /\ MockUnchanged

\* mock_server: the accepting task is spawned and the address returned
\* (line 105).
SpawnServer ==
  /\ m.pc = "bound"
  /\ m' = [m EXCEPT !.pc = "have_addr", !.task = "accepting"]
  /\ MockUnchanged

\* Lines 106-110.
BuildApiInfo ==
  /\ m.pc = "have_addr"
  /\ m' = [m EXCEPT !.pc = "configured", !.api_info = ApiInfo(m.addr)]
  /\ MockUnchanged

\* Line 112: S::connect(&api_info) is started.
ClientStart ==
  /\ m.pc = "configured"
  /\ m' = [m EXCEPT !.pc = "awaiting_client", !.client = "connecting"]
  /\ MockUnchanged

\* The client's TCP connect reaches base_url: queued at the listener, or
\* refused when nothing listens there.
ClientTcpConnect ==
  /\ m.client = "connecting"
  /\ LET u == m.api_info.base_url
         listening == /\ m.addr # None
                      /\ u.host = m.addr.ip
                      /\ u.port = m.addr.port
     IN IF listening
        THEN m' = [m EXCEPT !.client = "handshaking", !.conn = "queued"]
        ELSE m' = [m EXCEPT !.client = "done", !.conn = "refused",
                            !.clientResult = Err(ErrorFrom("ConnectionRefused"))]
  /\ MockUnchanged

\* The server task accepts the one connection.
Accept ==
  /\ m.task = "accepting"
  /\ m.conn = "queued"
  /\ m' = [m EXCEPT !.task = "upgrading", !.conn = "accepted"]
  /\ MockUnchanged

\* accept() fails: the task's unwrap panics and the listener is dropped.
AcceptFail ==
  /\ m.task = "accepting"
  /\ m.conn = "queued"
  /\ m' = [m EXCEPT !.task = "panicked", !.conn = "closed_before_upgrade"]
  /\ MockUnchanged

\* The server side of the websocket upgrade completes; the script is invoked
\* with the upgraded stream.
Upgrade ==
  /\ m.task = "upgrading"
  /\ m' = [m EXCEPT !.task = "script", !.conn = "upgraded"]
  /\ MockUnchanged

\* The upgrade fails: the task's unwrap panics and the socket is closed.
UpgradeFail ==
  /\ m.task = "upgrading"
  /\ m' = [m EXCEPT !.task = "panicked", !.conn = "closed_before_upgrade"]
  /\ MockUnchanged

\* The script does nothing further and returns.
ScriptIdle ==
  /\ m.task = "script"
  /\ m.f = "idle"
  /\ m' = [m EXCEPT !.task = "finished"]
  /\ MockUnchanged

\* The script sends what makes the client raise, and returns.
ScriptBreak ==
  /\ m.task = "script"
  /\ m.f = "break"
  /\ m' = [m EXCEPT !.task = "finished", !.conn = "broken"]
  /\ MockUnchanged

\* The script sends one text frame and then waits, leaving the stream open.
ScriptServe ==
  /\ m.task = "script"
  /\ m.f = "serve"
  /\ m' = [m EXCEPT !.task = "serving", !.frames = Append(@, "{\"stream\":\"ok\"}")]
  /\ MockUnchanged

\* The script panics: the spawned task ends, its handle was dropped.
ScriptPanic ==
  /\ m.task = "script"
  /\ m.f = "panic"
  /\ m' = [m EXCEPT !.task = "panicked", !.scriptPanicked = TRUE]
  /\ MockUnchanged

\* The client's handshake completes against the upgraded connection.
ClientHandshakeOk ==
  /\ m.client = "handshaking"
  /\ m.conn \in {"upgraded", "broken"}
  /\ m' = [m EXCEPT !.client = "subscribing"]
  /\ MockUnchanged

\* The client's handshake fails: the server closed before the upgrade.
ClientHandshakeFail ==
  /\ m.client = "handshaking"
  /\ m.conn = "closed_before_upgrade"
  /\ m' = [m EXCEPT !.client = "done",
                    !.clientResult = Err(ErrorFrom("ConnectionClosed"))]
  /\ MockUnchanged

\* The client finishes connect-and-subscribe.
ClientSubscribe ==
  /\ m.client = "subscribing"
  /\ m' = [m EXCEPT !.client = "done",
                    !.clientResult = SubscribeResult(m.conn, m.api_info)]
  /\ MockUnchanged

\* Line 112: the awaited S::connect is Ready and mock_stream returns.
MockStreamReturn ==
  /\ m.pc = "awaiting_client"
  /\ m.client = "done"
  /\ m' = [m EXCEPT !.pc = "returned", !.ret = MockStreamResult(m.clientResult)]
  /\ MockUnchanged

MockNext ==
  \/ \E a \in LocalAddrs : BindOk(a)
  \/ BindFail
  \/ SpawnServer
  \/ BuildApiInfo
  \/ ClientStart
  \/ ClientTcpConnect
  \/ Accept
  \/ AcceptFail
  \/ Upgrade
  \/ UpgradeFail
  \/ ScriptIdle
  \/ ScriptBreak
  \/ ScriptServe
  \/ ScriptPanic
  \/ ClientHandshakeOk
  \/ ClientHandshakeFail
  \/ ClientSubscribe
  \/ MockStreamReturn

MockSpec == MockInit /\ [][MockNext]_vars

\* Every runnable task is eventually polled and the loopback connection
\* delivers what was sent.
MockLiveSpec == MockSpec /\ WF_vars(MockNext)

\* -------------------------------------------------------- harness properties
Returned == m.pc = "returned"

\* C5: when the server side closed the connection before the upgrade
\* completed, the client's call has failed, and a mock_stream that has
\* returned has returned exactly that failure, never a pair of handles.
C5_FailureReturned ==
  m.conn = "closed_before_upgrade" =>
    /\ m.client = "done" => m.clientResult.tag = "Err"
    /\ Returned => m.ret.tag = "Err" /\ m.ret = m.clientResult

\* mock_stream has returned after the server closed before the upgrade.
C5_Witness == Returned /\ m.conn = "closed_before_upgrade"

\* C6: the configuration handed to the client is ws://<the mock server's
\* address> with the two fixed credentials; with the idle script, a
\* mock_stream whose connection was accepted returns the pair of handles
\* without error, and does eventually return it.
C6_IdleScriptSucceeds ==
  /\ [](m.client # "not_started" =>
          m.api_info = [base_url |-> [scheme |-> "ws", host |-> m.addr.ip,
                                      port |-> m.addr.port, path |-> "/"],
                        key_id |-> "USER12345678", secret |-> "justletmein"])
  /\ [](m.f = "idle" /\ m.task \in {"script", "finished"} /\ Returned =>
          /\ m.ret.tag = "Ok"
          /\ DOMAIN m.ret.val = {"stream", "subscription"})
  /\ (m.f = "idle" /\ m.task \in {"script", "finished"})
       ~> (Returned /\ m.ret.tag = "Ok")

\* The idle script has run and mock_stream has returned the handles.
C6_Witness ==
  m.f = "idle" /\ m.task = "finished" /\ Returned /\ m.ret.tag = "Ok"

\* C7 as stated: once the server task has panicked or the bind has failed,
\* mock_stream's caller does not observe a success.
C7_PanicSurfaces ==
  (m.task = "panicked" \/ m.pc = "panicked") => ~(Returned /\ m.ret.tag = "Ok")

\* C7, amended: a failed bind panics in mock_stream's own task before any
\* client is started and nothing is returned; a mock_stream that returns,
\* returns exactly what the client's connect-and-subscribe call yielded,
\* whether or not the script has panicked in its detached task.
C7_ClientResultOnly ==
  /\ m.pc = "panicked" =>
       m.addr = None /\ m.client = "not_started" /\ m.ret = None
  /\ m.addr = None => m.pc \in {"start", "panicked"}
  /\ Returned => m.client = "done" /\ m.ret = m.clientResult

\* The script has panicked and mock_stream has returned the handles all the
\* same.
C7_Witness == m.scriptPanicked /\ Returned /\ m.ret.tag = "Ok"

\* C9: once the client's call has started, the listener is bound and the
\* accepting task spawned, the client's target is the listener's address, and
\* its connection attempt is never refused.
C9_ListeningFirst ==
  /\ m.client # "not_started" =>
       /\ m.addr # None
       /\ m.task # "not_spawned"
       /\ m.api_info.base_url.host = m.addr.ip
       /\ m.api_info.base_url.port = m.addr.port
  /\ m.conn # "refused"

\* The client's connection is queued at the listener while the server task
\* has not yet accepted it.
C9_Witness ==
  m.client = "handshaking" /\ m.conn = "queued" /\ m.task = "accepting"

====
